---------------------------- MODULE Spec2Model ----------------------------
(***************************************************************************)
(* titlelist (src/main.rs): reads a list of URLs, resolves the title of    *)
(* every page through a stream of futures buffered 10 at a time, and       *)
(* prints one templated line per URL.                                      *)
(*                                                                         *)
(* Text is a sequence of one-character strings, so that trimming, line     *)
(* splitting and placeholder scanning are computed character by character. *)
(***************************************************************************)
EXTENDS Integers, Sequences, FiniteSets, TLC

VARIABLES
    source,      \* the input source: [readable, text]
    skip,        \* args.skip_when_no_title
    template,    \* the template in effect (main.rs:42)
    pc,          \* position of main: "read", "next", "poll", "pending", "done", "failed"
    urls,        \* the UrlEntries, non_empty_lines(&contents)
    pulled,      \* futures taken from titles_iter by buffered(10)
    status,      \* per position: "unpulled", "queued", "fetching", "done", "delivered", "dropped"
    fetches,     \* per position: how many times its request was sent
    consumed,    \* positions handed to the while-let body, in hand-off order
    stdout,      \* println! lines: [pos, text]
    stderr,      \* eprintln! lines: [pos, text]
    exit,        \* process status: Running, then 0 or 1
    report,      \* the Err main returned, None if none
    fn,          \* unit-level call of a pure function: its name ("none" in a pipeline run)
    arg,         \* ... its argument
    res          \* ... its result ("unset" before the call returns)

vars == << source, skip, template, pc, urls, pulled, status, fetches,
           consumed, stdout, stderr, exit, report, fn, arg, res >>

pipelineVars == << source, skip, template, pc, urls, pulled, status, fetches,
                   consumed, stdout, stderr, exit, report >>

callVars == << fn, arg, res >>

-----------------------------------------------------------------------------
(* Text helpers *)

\* Unicode White_Space, restricted to the characters the model uses.
IsWhitespace(c) == c \in {" ", "\t", "\r", "\n"}

RECURSIVE trim_start(_)
\* str::trim_start: drop leading whitespace.
trim_start(s) ==
    IF s = << >> THEN << >>
    ELSE IF IsWhitespace(Head(s)) THEN trim_start(Tail(s)) ELSE s

RECURSIVE trim_end(_)
\* str::trim_end: drop trailing whitespace.
trim_end(s) ==
    IF s = << >> THEN << >>
    ELSE IF IsWhitespace(s[Len(s)]) THEN trim_end(SubSeq(s, 1, Len(s) - 1)) ELSE s

\* str::trim, as called at main.rs:102 and main.rs:143.
trim(s) == trim_end(trim_start(s))

\* str::strip_suffix(c) with the "else return line" of str::lines.
StripSuffix(s, c) ==
    IF s # << >> /\ s[Len(s)] = c THEN SubSeq(s, 1, Len(s) - 1) ELSE s

RECURSIVE SplitInclusive(_, _)
\* str::split_inclusive('\n'): pieces that keep their terminator; cur is the
\* piece being read.  An empty final piece is not produced.
SplitInclusive(s, cur) ==
    IF s = << >> THEN (IF cur = << >> THEN << >> ELSE << cur >>)
    ELSE IF Head(s) = "\n"
         THEN << Append(cur, "\n") >> \o SplitInclusive(Tail(s), << >>)
         ELSE SplitInclusive(Tail(s), Append(cur, Head(s)))

\* str::lines: a line ends at "\n" or "\r\n"; the final line ending is optional.
LineOf(piece) ==
    IF piece # << >> /\ piece[Len(piece)] = "\n"
    THEN StripSuffix(SubSeq(piece, 1, Len(piece) - 1), "\r")
    ELSE piece

lines(contents) ==
    LET pieces == SplitInclusive(contents, << >>)
    IN  [k \in 1..Len(pieces) |-> LineOf(pieces[k])]

NotEmpty(line) == line # << >>

\* Variant without the map(|line| line.trim()) of main.rs:102.
Untrimmed_non_empty_lines(contents) ==
    SelectSeq(lines(contents), NotEmpty)

\* main.rs:99-104
non_empty_lines(contents) ==
    LET trimmed == [k \in 1..Len(lines(contents)) |-> trim(lines(contents)[k])]
    IN  SelectSeq(trimmed, NotEmpty)

-----------------------------------------------------------------------------
(* Option<String> *)

None == [tag |-> "None"]

Some(x) == [tag |-> "Some", val |-> x]

-----------------------------------------------------------------------------
(* process_template, main.rs:70-82 *)

StartsWith(s, p) == Len(s) >= Len(p) /\ SubSeq(s, 1, Len(p)) = p

Drop(s, n) == SubSeq(s, n + 1, Len(s))

\* The two alternatives of the regex "%(title|url)", main.rs:73.
PctTitle == << "%", "t", "i", "t", "l", "e" >>

PctUrl == << "%", "u", "r", "l" >>

RECURSIVE process_template(_, _, _)
\* Regex::replace_all over the template: leftmost, non-overlapping matches of
\* "%(title|url)", each replaced by the closure's answer (main.rs:75-79); the
\* text between matches is copied.
process_template(tpl, title, url) ==
    IF tpl = << >> THEN << >>
    ELSE IF StartsWith(tpl, PctTitle)
         THEN title \o process_template(Drop(tpl, Len(PctTitle)), title, url)
    ELSE IF StartsWith(tpl, PctUrl)
         THEN url \o process_template(Drop(tpl, Len(PctUrl)), title, url)
    ELSE << Head(tpl) >> \o process_template(Tail(tpl), title, url)

-----------------------------------------------------------------------------
(* parse_html_and_get_title, main.rs:135-159.  A parsed fragment is modelled *)
(* by what the selector and Text iterator see of it: the title elements in  *)
(* document order, each as the sequence of its descendant text nodes.       *)

RECURSIVE PushNodes(_, _)
\* The for loop of join_text, main.rs:142-145.
PushNodes(s, text) ==
    IF text = << >> THEN s
    ELSE PushNodes((s \o trim(Head(text))) \o << " " >>, Tail(text))

\* String::pop: removes the last character, if there is one.
Pop(s) == IF s = << >> THEN s ELSE SubSeq(s, 1, Len(s) - 1)

\* main.rs:140-148
join_text(text) == Pop(PushNodes(<< >>, text))

\* main.rs:152-158: the first selected element, its joined text, None for "".
parse_html_and_get_title(html) ==
    IF html = << >> THEN None
    ELSE IF join_text(html[1]) = << >> THEN None
         ELSE Some(join_text(html[1]))

-----------------------------------------------------------------------------
(* The network, as far as the program sees it.  What a URL answers is fixed *)
(* by its first character; when it answers is the scheduler's choice.       *)
(*   t  a page whose first title element has text                           *)
(*   n  a page without a title element                                      *)
(*   e  the request fails in flight (DNS, connection, TLS)                   *)
(*   x  the request cannot be built (malformed URL): send() is an error on  *)
(*      its first poll                                                      *)
(*   d  the response arrives and its body cannot be read                     *)

UrlKind(url) == IF url = << >> THEN "x" ELSE url[1]

PageOf(url) ==
    IF UrlKind(url) = "t" THEN << << << " ", "T", " " >> >> >> ELSE << >>

Ok(v) == [tag |-> "Ok", val |-> v]

Err(e) == [tag |-> "Err", err |-> e]

\* The backquote of the program's messages, written ' here: a TLA+ string
\* cannot hold a backquote.
Backquote == "'"

\* format!("failed to get: `{url}`"), main.rs:127
FailedToGet(url) ==
    << "f", "a", "i", "l", "e", "d", " ", "t", "o", " ", "g", "e", "t", ":", " ", Backquote >>
        \o url \o << Backquote >>

\* main.rs:114-131.  An error of send() is wrapped with the URL (main.rs:127);
\* an error of text() is converted as it is (main.rs:130).
load_html(url) ==
    CASE UrlKind(url) \in {"e", "x"} ->
            Err([context |-> Some(FailedToGet(url)), cause |-> "send"])
      [] UrlKind(url) = "d" ->
            Err([context |-> None, cause |-> "body"])
      [] OTHER -> Ok(PageOf(url))

\* main.rs:108-111
load_url_and_get_title(url) ==
    IF load_html(url).tag = "Err" THEN load_html(url)
    ELSE Ok(parse_html_and_get_title(load_html(url).val))

\* Whether the future of this URL is Ready the first time it is polled.
ReadyAtFirstPoll(url) == UrlKind(url) = "x"

-----------------------------------------------------------------------------
(* main, main.rs:39-68.                                                     *)
(*                                                                         *)
(* stream::iter(titles_iter).buffered(10) is a FuturesOrdered behind a fill *)
(* loop.  A future is "queued" once pulled from the iterator, "fetching"    *)
(* from its first poll until its request completes, "done" from then until *)
(* its output leaves the stream in its turn ("delivered").  A done future   *)
(* still counts in the length the fill loop compares with the limit,        *)
(* whether its output already sits in the queue of FuturesOrdered or not,   *)
(* so the two are not told apart.  The order in which FuturesUnordered      *)
(* polls woken futures is left open; new futures are polled in push order.  *)

\* main.rs:42
DefaultTemplate ==
    << "%", "t", "i", "t", "l", "e", " ", "<", "%", "u", "r", "l", ">" >>

\* main.rs:59
NoTitle ==
    << "@", "@", "@", " ", "N", "O", " ", "T", "I", "T", "L", "E", " ", "@", "@", "@" >>

\* format!("(no title for `{url}`)"), main.rs:58
NoTitleNotice(url) ==
    << "(", "n", "o", " ", "t", "i", "t", "l", "e", " ", "f", "o", "r", " ", Backquote >>
        \o url \o << Backquote, ")" >>

\* main.rs:53: buffered(10)
Limit == 10

Min(a, b) == IF a < b THEN a ELSE b

\* Variant of len that forgets the outputs queued for their turn.
BufferWithoutOutputs == { i \in DOMAIN status : status[i] \in {"queued", "fetching"} }

\* FuturesOrdered::len: the futures in progress plus the outputs queued for
\* their turn.  Buffered pulls from the iterator while this is below the limit.
Buffer == { i \in DOMAIN status : status[i] \in {"queued", "fetching", "done"} }

InFlight == { i \in DOMAIN status : status[i] = "fetching" }

Queued == { i \in DOMAIN status : status[i] = "queued" }

\* FuturesOrdered::next_outgoing_index, counted from 1.
NextOutgoing == Len(consumed) + 1

\* Variant without a limit: every future is taken at the first poll.
RoomUnbounded(len) == Len(urls)

\* Variant in which a delivered result never gives its slot back.
RoomNeverFreed(len) == Limit - pulled

\* Variant in which a completed fetch frees its slot at once: only the futures
\* still in progress count against the limit.
RoomInProgressOnly(len) == Limit - Cardinality(Queued \cup InFlight)

\* Buffered::poll_next: "while in_progress_queue.len() < max".
Room(len) == Limit - len

\* The futures the fill loop takes from titles_iter in one poll.
Take == Min(Room(Cardinality(Buffer)), Len(urls) - pulled)

FirstQueued == CHOOSE i \in Queued : \A j \in Queued : i <= j

\* Variant that yields in completion order, as buffer_unordered would.
YieldsAnyReady(i) == i \in DOMAIN status /\ status[i] = "done"

\* FuturesOrdered::poll_next: an output leaves the stream only when its index
\* is the next outgoing index.
Yields(i) == i = NextOutgoing /\ i \in DOMAIN status /\ status[i] = "done"

\* Variant whose closure returns the sentinel whatever the flag is.
maybe_title_never_skips(title, skipFlag) ==
    IF title.tag = "Some" THEN title ELSE Some(NoTitle)

\* main.rs:57-60: the value of maybe_title.as_deref().or_else(..)
maybe_title(title, skipFlag) ==
    IF title.tag = "Some" THEN title
    ELSE IF ~skipFlag THEN Some(NoTitle) ELSE None

\* Variant that prints the notice only when the line is suppressed.
notices_unless_fallback(title, url, skipFlag) ==
    IF title.tag = "None" /\ skipFlag THEN << NoTitleNotice(url) >> ELSE << >>

\* main.rs:58: what the or_else closure prints; it runs when the title is None.
notices(title, url, skipFlag) ==
    IF title.tag = "None" THEN << NoTitleNotice(url) >> ELSE << >>

\* The value of exit while the process has not ended.
Running == -1

\* Variant in which an Err returned by main is lost.
ExitCodeZero(result) == 0

\* #[tokio::main] fn main() -> Result<()>: Ok(()) exits 0, Err(report) exits 1.
ExitCode(result) == IF result.tag = "Err" THEN 1 ELSE 0

\* Dropping urls_stream when main returns drops every future still in it.
Dropped(i) ==
    [j \in DOMAIN status |->
        IF j = i THEN "delivered"
        ELSE IF status[j] \in {"queued", "fetching"} THEN "dropped"
        ELSE status[j]]

At(i, texts) == [k \in 1..Len(texts) |-> [pos |-> i, text |-> texts[k]]]

\* Variant of the loop body without the "?" of main.rs:56: an Err is handled
\* as a missing title and the loop goes on.
BodyIgnoringErr(i) ==
    LET r     == load_url_and_get_title(urls[i])
        title == IF r.tag = "Err" THEN None ELSE r.val
        shown == maybe_title(title, skip)
    IN  /\ consumed' = Append(consumed, i)
        /\ stderr' = stderr \o At(i, notices(title, urls[i], skip))
        /\ stdout' = IF shown.tag = "Some"
                     THEN Append(stdout, [pos |-> i,
                              text |-> process_template(template, shown.val, urls[i])])
                     ELSE stdout
        /\ status' = [status EXCEPT ![i] = "delivered"]
        /\ pc' = "next"
        /\ UNCHANGED << exit, report >>

\* main.rs:56-64: the body of the while-let loop, given the output of future i.
Body(i) ==
    LET r == load_url_and_get_title(urls[i])
    IN  /\ consumed' = Append(consumed, i)
        /\ IF r.tag = "Err"
           THEN \* main.rs:56: tup? returns the error from main
                /\ pc' = "failed"
                /\ exit' = ExitCode(r)
                /\ report' = Some(r.err)
                /\ status' = Dropped(i)
                /\ UNCHANGED << stdout, stderr >>
           ELSE LET title == r.val
                    shown == maybe_title(title, skip)
                IN  /\ stderr' = stderr \o At(i, notices(title, urls[i], skip))
                    /\ stdout' = IF shown.tag = "Some"
                                 THEN Append(stdout, [pos |-> i,
                                          text |-> process_template(template, shown.val, urls[i])])
                                 ELSE stdout
                    /\ status' = [status EXCEPT ![i] = "delivered"]
                    /\ pc' = "next"
                    /\ UNCHANGED << exit, report >>

\* main.rs:44-47: read the source; "?" returns its error before anything else.
ReadFile ==
    /\ pc = "read"
    /\ IF source.readable
       THEN /\ urls' = non_empty_lines(source.text)
            /\ status' = [i \in 1..Len(non_empty_lines(source.text)) |-> "unpulled"]
            /\ fetches' = [i \in 1..Len(non_empty_lines(source.text)) |-> 0]
            /\ pc' = "next"
            /\ UNCHANGED << exit, report >>
       ELSE /\ pc' = "failed"
            /\ exit' = ExitCode(Err("read"))
            /\ report' = Some("read")
            /\ UNCHANGED << urls, status, fetches >>
    /\ UNCHANGED << source, skip, template, pulled, consumed, stdout, stderr, callVars >>

\* main.rs:55, urls_stream.next() polled: Buffered first fills its queue.
Fill ==
    /\ pc = "next"
    /\ status' = [i \in DOMAIN status |->
                    IF pulled < i /\ i <= pulled + Take THEN "queued" ELSE status[i]]
    /\ pulled' = pulled + Take
    /\ pc' = "poll"
    /\ UNCHANGED << source, skip, template, urls, fetches, consumed, stdout, stderr,
                    exit, report, callVars >>

\* FuturesUnordered polls a future for the first time: the async block of
\* main.rs:47-50 runs up to send().await (main.rs:125-126) and the request
\* goes out.  New futures are polled in the order they were pushed.  A future
\* that is Ready at once and is the next outgoing one is yielded by this poll.
FirstPoll ==
    /\ pc = "poll"
    /\ Queued # {}
    /\ LET i == FirstQueued
       IN  /\ fetches' = [fetches EXCEPT ![i] = @ + 1]
           /\ IF ReadyAtFirstPoll(urls[i])
              THEN IF i = NextOutgoing
                   THEN Body(i)
                   ELSE /\ status' = [status EXCEPT ![i] = "done"]
                        /\ UNCHANGED << pc, consumed, stdout, stderr, exit, report >>
              ELSE /\ status' = [status EXCEPT ![i] = "fetching"]
                   /\ UNCHANGED << pc, consumed, stdout, stderr, exit, report >>
    /\ UNCHANGED << source, skip, template, urls, pulled, callVars >>

\* Variant with one retry: a failed request is sent a second time.
NetCompleteRetrying(i) ==
    /\ pc \in {"next", "poll", "pending"}
    /\ i \in InFlight
    /\ IF UrlKind(urls[i]) = "e" /\ fetches[i] < 2
       THEN /\ fetches' = [fetches EXCEPT ![i] = @ + 1]
            /\ UNCHANGED status
       ELSE /\ status' = [status EXCEPT ![i] = "done"]
            /\ UNCHANGED fetches
    /\ UNCHANGED << source, skip, template, pc, urls, pulled, consumed,
                    stdout, stderr, exit, report, callVars >>

\* The response of request i arrives (or the request fails) and wakes main.
NetComplete(i) ==
    /\ pc \in {"next", "poll", "pending"}
    /\ i \in InFlight
    /\ status' = [status EXCEPT ![i] = "done"]
    /\ UNCHANGED << source, skip, template, pc, urls, pulled, fetches, consumed,
                    stdout, stderr, exit, report, callVars >>

\* urls_stream.next() is Ready(Some(tup)): the loop body runs on it.
Yield ==
    /\ pc = "poll"
    /\ \E i \in DOMAIN status : Yields(i) /\ Body(i)
    /\ UNCHANGED << source, skip, template, urls, pulled, fetches, callVars >>

\* Every future has been polled and the next outgoing one is not ready:
\* urls_stream.next() is Pending and main sleeps.
Suspend ==
    /\ pc = "poll"
    /\ Queued = {}
    /\ NextOutgoing \in InFlight
    /\ pc' = "pending"
    /\ UNCHANGED << source, skip, template, urls, pulled, status, fetches, consumed,
                    stdout, stderr, exit, report, callVars >>

\* main is polled again once the next outgoing future is ready.  (A wake-up by
\* another future only moves its output to the queue of FuturesOrdered, which
\* Buffer already counts, and suspends again.)
Resume ==
    /\ pc = "pending"
    /\ NextOutgoing \in DOMAIN status /\ status[NextOutgoing] = "done"
    /\ pc' = "next"
    /\ UNCHANGED << source, skip, template, urls, pulled, status, fetches, consumed,
                    stdout, stderr, exit, report, callVars >>

\* urls_stream.next() is Ready(None): the queue is empty and the iterator is
\* done; main.rs:67 returns Ok(()).
Finish ==
    /\ pc = "poll"
    /\ Buffer = {}
    /\ pulled = Len(urls)
    /\ pc' = "done"
    /\ exit' = ExitCode(Ok("unit"))
    /\ UNCHANGED << source, skip, template, urls, pulled, status, fetches, consumed,
                    stdout, stderr, report, callVars >>

-----------------------------------------------------------------------------
(* Inputs *)

\* Lines of a short input file.
MaxLines == 3

\* Entries of a long input file: more than buffered(10) holds at once.
MaxUrls == 11

\* The last position of a long input file that may hold an entry without a
\* title or with a failing fetch.
MaxSpecial == 2

\* Characters of an input text given to non_empty_lines on its own.
MaxText == 5

\* Pieces of a template given to process_template on its own.
MaxPieces == 3

\* Characters of a URL given to load_html on its own.
MaxUrlChars == 3

\* Title elements of a fragment, and text nodes of a title element.
MaxTitles == 2

MaxNodes == 2

SeqsUpTo(S, n) == UNION { [1..k -> S] : k \in 0..n }

RECURSIVE Concat(_)
Concat(ss) == IF ss = << >> THEN << >> ELSE Head(ss) \o Concat(Tail(ss))

\* A text file with these lines, each ended by a newline.
FileOf(ls) == Concat([k \in 1..Len(ls) |-> Append(ls[k], "\n")])

LineTokens == { << "t" >>, << "n" >>, << "e" >>, << "x" >>, << " " >> }

ShortFiles == { FileOf(ls) : ls \in SeqsUpTo(LineTokens, MaxLines) }

\* L entries that all have a title, except entry p (if any), which is of kind k.
LongLines(L, p, k) == [i \in 1..L |-> IF i = p THEN << k >> ELSE << "t" >>]

LongFiles ==
    { FileOf(LongLines(L, p, k)) :
        L \in (Limit + 1)..MaxUrls, p \in 0..MaxSpecial, k \in {"n", "e", "x"} }

Readable(texts) == { [readable |-> TRUE, text |-> t] : t \in texts }

Unreadable == [readable |-> FALSE, text |-> << >>]

Templates == { DefaultTemplate, << "%", "u", "r", "l" >> }

-----------------------------------------------------------------------------
(* The program: one run of main *)

Unset == [tag |-> "Unset"]

Ret(v) == [tag |-> "Ret", val |-> v]

NoCall == fn = "none" /\ arg = << >> /\ res = Unset

Init ==
    /\ \/ /\ source \in {Unreadable} \cup Readable(ShortFiles)
          /\ skip \in BOOLEAN
          /\ template \in Templates
       \/ /\ source \in Readable(LongFiles)
          /\ skip = FALSE
          /\ template = DefaultTemplate
    /\ pc = "read"
    /\ urls = << >>
    /\ pulled = 0
    /\ status = << >>
    /\ fetches = << >>
    /\ consumed = << >>
    /\ stdout = << >>
    /\ stderr = << >>
    /\ exit = Running
    /\ report = None
    /\ NoCall

Next ==
    \/ ReadFile
    \/ Fill
    \/ FirstPoll
    \/ \E i \in DOMAIN status : NetComplete(i)
    \/ Yield
    \/ Suspend
    \/ Resume
    \/ Finish

Spec == Init /\ [][Next]_vars

\* Long input files for the runs under fairness: all entries with a title, or
\* the first one failing.
FairLongFiles ==
    { FileOf(LongLines(L, p, "e")) : L \in (Limit + 1)..MaxUrls, p \in 0..1 }

\* The skip flag and the template do not steer the control flow of main.
InitFair ==
    /\ Init
    /\ source \in {Unreadable} \cup Readable(ShortFiles \cup FairLongFiles)
    /\ skip = FALSE
    /\ template = DefaultTemplate

\* The run under a fair schedule: a step that stays possible is eventually
\* taken.  The runtime polls main while it can go on (block_on, and the
\* wake-up by a completed request), and a request in flight eventually
\* completes, with a response or an error.
FairSpec == InitFair /\ [][Next]_vars /\ WF_vars(Next)

-----------------------------------------------------------------------------
(* Unit-level calls of the pure functions: the arguments are drawn at Init, *)
(* the call returns in one step, and main does not run.                     *)

NoRun ==
    /\ source = Unreadable
    /\ skip = FALSE
    /\ template = DefaultTemplate
    /\ pc = "call"
    /\ urls = << >>
    /\ pulled = 0
    /\ status = << >>
    /\ fetches = << >>
    /\ consumed = << >>
    /\ stdout = << >>
    /\ stderr = << >>
    /\ exit = Running
    /\ report = None

Returned == res.tag = "Ret"

TextChars == { "a", " ", "\n", "\r" }

Texts == SeqsUpTo(TextChars, MaxText)

InitLines ==
    /\ NoRun
    /\ fn = "non_empty_lines"
    /\ arg \in Texts
    /\ res = Unset

CallLines ==
    /\ fn = "non_empty_lines"
    /\ res = Unset
    /\ res' = Ret(non_empty_lines(arg))
    /\ UNCHANGED << fn, arg, pipelineVars >>

SpecLines == InitLines /\ [][CallLines]_vars

Pieces == { PctTitle, PctUrl, << "%" >>, << "s" >>, << " " >> }

TemplateTexts == { Concat(ps) : ps \in SeqsUpTo(Pieces, MaxPieces) }

TitleTexts == { << "T" >>, PctUrl }

UrlTexts == { << "u" >>, PctTitle }

InitTemplate ==
    /\ NoRun
    /\ fn = "process_template"
    /\ arg \in [template : TemplateTexts, title : TitleTexts, url : UrlTexts]
    /\ res = Unset

CallTemplate ==
    /\ fn = "process_template"
    /\ res = Unset
    /\ res' = Ret(process_template(arg.template, arg.title, arg.url))
    /\ UNCHANGED << fn, arg, pipelineVars >>

SpecTemplate == InitTemplate /\ [][CallTemplate]_vars

UrlChars == { "t", "n", "e", "x", "d" }

UrlArgs == SeqsUpTo(UrlChars, MaxUrlChars) \ { << >> }

InitFetch ==
    /\ NoRun
    /\ fn = "load_html"
    /\ arg \in UrlArgs
    /\ res = Unset

CallFetch ==
    /\ fn = "load_html"
    /\ res = Unset
    /\ res' = Ret(load_html(arg))
    /\ UNCHANGED << fn, arg, pipelineVars >>

SpecFetch == InitFetch /\ [][CallFetch]_vars

NodeTexts == { << >>, << " " >>, << "a" >>, << " ", "b", " " >> }

TitleElements == SeqsUpTo(NodeTexts, MaxNodes)

Fragments == SeqsUpTo(TitleElements, MaxTitles)

InitTitle ==
    /\ NoRun
    /\ fn = "parse_html_and_get_title"
    /\ arg \in Fragments
    /\ res = Unset

CallTitle ==
    /\ fn = "parse_html_and_get_title"
    /\ res = Unset
    /\ res' = Ret(parse_html_and_get_title(arg))
    /\ UNCHANGED << fn, arg, pipelineVars >>

SpecTitle == InitTitle /\ [][CallTitle]_vars

-----------------------------------------------------------------------------
(* Properties of the pipeline, checked under Spec *)

Positions == DOMAIN urls

\* What the network holds for an entry, read off the URL and not off the code.
Fails(i) == UrlKind(urls[i]) \in {"e", "x", "d"}

Titled(i) == UrlKind(urls[i]) = "t"

Untitled(i) == UrlKind(urls[i]) = "n"

LinesAt(i) == { k \in DOMAIN stdout : stdout[k].pos = i }

NoticesAt(i) == { k \in DOMAIN stderr : stderr[k].pos = i }

\* sub occurs in text as a contiguous run of characters.
Contains(text, sub) ==
    \E k \in 0..(Len(text) - Len(sub)) : SubSeq(text, k + 1, k + Len(sub)) = sub

FailingPositions == { i \in Positions : Fails(i) }

FirstFailing == CHOOSE f \in FailingPositions : \A g \in FailingPositions : f <= g

\* C1: results are handed to the loop body in input order (position i only
\* after every position before it), and the lines on standard output are in
\* the order of their entries in the input, whatever order the fetches
\* completed in.
C1_OutputInInputOrder ==
    /\ consumed = [k \in 1..Len(consumed) |-> k]
    /\ \A a, b \in DOMAIN stdout : a < b => stdout[a].pos < stdout[b].pos
    /\ \A k \in DOMAIN stdout :
          \* both templates of the model carry %url
          Contains(stdout[k].text, urls[stdout[k].pos])

\* C1 witness: after the first result was handed over, a later fetch has
\* completed while the fetch of the next outgoing position is still running,
\* and its result has not been handed over.
C1_Witness ==
    /\ Len(consumed) >= 1
    /\ NextOutgoing \in InFlight
    /\ \E j \in Positions : j > NextOutgoing /\ status[j] = "done" /\ Titled(j)
    /\ Len(stdout) = Len(consumed)

\* C2: at most 10 fetches are started and not yet completed, in every state.
C2_AtMostTenInFlight == Cardinality(InFlight) <= 10

\* C2 witness: ten fetches in flight while an entry of an input longer than
\* ten has not been started.
C2_Witness ==
    /\ Cardinality(InFlight) = 10
    /\ Len(urls) > 10
    /\ \E i \in Positions : status[i] = "unpulled"

\* C3: with f the first failing position, no line is ever written for f or a
\* later position, and when the failure is reported it is the failure of f and
\* the lines of all positions before f (those the skip policy does not
\* suppress) are on standard output.
C3_FailFastByPosition ==
    /\ FailingPositions # {} =>
          \A k \in DOMAIN stdout : stdout[k].pos < FirstFailing
    /\ (pc = "failed" /\ source.readable) =>
          /\ FailingPositions # {}
          /\ consumed[Len(consumed)] = FirstFailing
          /\ \A i \in 1..(FirstFailing - 1) :
                (Titled(i) \/ ~skip) <=> LinesAt(i) # {}

\* C3 witness: the failure of position f >= 2 has been reported, the lines
\* before it are printed, and a later position had already completed (one
\* with a title, or one that failed) and was never printed.
C3_Witness ==
    /\ pc = "failed"
    /\ source.readable
    /\ FirstFailing >= 2
    /\ Len(stdout) = FirstFailing - 1
    /\ \E j \in Positions : j > FirstFailing /\ status[j] = "done"
                              /\ fetches[j] = 1 /\ UrlKind(urls[j]) \in {"t", "e"}

\* C4: for every successful result handed to the loop body: if the title is
\* absent, one notice naming the URL is on the error stream whatever the skip
\* setting is, and the output has the sentinel line when skip is false and no
\* line when skip is true; if the title is present there is no notice and the
\* line carries the real title.
C4_FallbackPolicy ==
    \A k \in DOMAIN consumed :
        LET i == consumed[k]
        IN  /\ Untitled(i) =>
                /\ Cardinality(NoticesAt(i)) = 1
                /\ \A n \in NoticesAt(i) : Contains(stderr[n].text, urls[i])
                /\ ~skip => /\ Cardinality(LinesAt(i)) = 1
                            /\ \A l \in LinesAt(i) : stdout[l].text =
                                  process_template(template, NoTitle, urls[i])
                /\ skip => LinesAt(i) = {}
            /\ Titled(i) =>
                /\ NoticesAt(i) = {}
                /\ Cardinality(LinesAt(i)) = 1
                /\ \A l \in LinesAt(i) : stdout[l].text =
                      process_template(template, << "T" >>, urls[i])

\* C4 witness: a finished run with skip set in which a page without a title
\* got its notice and no line, and a page with a title got its line.
C4_Witness ==
    /\ pc = "done"
    /\ skip
    /\ \E i \in Positions : Untitled(i) /\ NoticesAt(i) # {} /\ LinesAt(i) = {}
    /\ \E i \in Positions : Titled(i) /\ LinesAt(i) # {}

\* C5: a position has at most one line on standard output; when the run ends
\* without a failure, it has none exactly when its title is absent and skip is
\* set, and one otherwise.
C5_AtMostOneLine ==
    /\ \A i \in Positions : Cardinality(LinesAt(i)) <= 1
    /\ pc = "done" =>
          \A i \in Positions :
              IF Untitled(i) /\ skip
              THEN Cardinality(LinesAt(i)) = 0
              ELSE Cardinality(LinesAt(i)) = 1

\* C5 witness: a run ended with skip set over a page without a title and a
\* page with one.
C5_Witness ==
    /\ pc = "done"
    /\ skip
    /\ Len(urls) = 3
    /\ Untitled(2)
    /\ Len(stdout) = 2

\* C6: the request of a position is sent at most once, and never again after
\* it completed or failed.
C6_FetchedAtMostOnce ==
    \A i \in Positions :
        /\ fetches[i] <= 1
        /\ status[i] \in {"fetching", "done", "delivered"} => fetches[i] = 1

\* C6 witness: the same URL at two positions, a failing one, each fetched
\* once, the first failure delivered.
C6_Witness ==
    /\ pc = "failed"
    /\ Len(urls) >= 2
    /\ urls[1] = urls[2]
    /\ UrlKind(urls[1]) = "e"
    /\ fetches[1] = 1
    /\ fetches[2] = 1

\* C7: the process ends with status 1 when the source cannot be read or some
\* entry's resolution fails, and with 0 otherwise (a missing title does not
\* change the status); an unreadable source ends the run with no entry and no
\* fetch.
C7_ExitStatus ==
    /\ pc \in {"done", "failed"} =>
          exit = (IF ~source.readable \/ FailingPositions # {} THEN 1 ELSE 0)
    /\ pc \notin {"done", "failed"} => exit = Running
    /\ (~source.readable /\ pc # "read") =>
          /\ pc = "failed"
          /\ urls = << >>
          /\ fetches = << >>
          /\ pulled = 0

\* C7 witness: a run that printed a missing-title notice ended with status 0.
C7_Witness ==
    /\ pc = "done"
    /\ exit = 0
    /\ stderr # << >>

-----------------------------------------------------------------------------
(* Properties of the pure functions *)

RECURSIVE Ascending(_)
\* The elements of a set of numbers, smallest first.
Ascending(S) ==
    IF S = {} THEN << >>
    ELSE LET m == CHOOSE x \in S : \A y \in S : x <= y
         IN  << m >> \o Ascending(S \ {m})

\* The lines of a text, read off the positions of its newlines: a line starts
\* at 1 and after every newline, and runs to the next newline or the end.
LineStarts(text) == {1} \cup { k + 1 : k \in { j \in DOMAIN text : text[j] = "\n" } }

LineFrom(text, p) ==
    LET ends == { j \in p..Len(text) : text[j] = "\n" }
        stop == IF ends = {} THEN Len(text) + 1
                ELSE CHOOSE j \in ends : \A e \in ends : j <= e
    IN  SubSeq(text, p, stop - 1)

Blank(line) == \A k \in DOMAIN line : IsWhitespace(line[k])

\* The line from its first to its last character that is not whitespace.
Stripped(line) ==
    LET solid == { k \in DOMAIN line : ~IsWhitespace(line[k]) }
        first == CHOOSE k \in solid : \A j \in solid : k <= j
        last  == CHOOSE k \in solid : \A j \in solid : k >= j
    IN  SubSeq(line, first, last)

NonBlankStarts(text) == { p \in LineStarts(text) : ~Blank(LineFrom(text, p)) }

\* C8: the entries are the non-blank lines of the text, in order, each
\* stripped of the whitespace around it: K non-blank lines give K entries,
\* none of them empty, wherever the blank lines are.
C8_EntriesAreTrimmedNonBlankLines ==
    Returned =>
        LET starts == Ascending(NonBlankStarts(arg))
        IN  /\ Len(res.val) = Cardinality(NonBlankStarts(arg))
            /\ res.val = [k \in 1..Len(starts) |-> Stripped(LineFrom(arg, starts[k]))]
            /\ \A k \in DOMAIN res.val : res.val[k] # << >>

\* C8 witness: a padded line, a blank line, a whitespace-only line and a
\* last line without a newline give two entries.
C8_Witness ==
    /\ Returned
    /\ arg = << " ", "a", "\n", "\n", "a" >>
    /\ res.val = << << "a" >>, << "a" >> >>

IsWordChar(c) == c \in { "s", "t", "i", "l", "e", "u", "r" }

RECURSIVE ExactRender(_, _, _)
\* The template with every %title and %url token replaced that is not the
\* beginning of a longer word.
ExactRender(tpl, title, url) ==
    LET exact(p) == /\ StartsWith(tpl, p)
                    /\ ~(Len(tpl) > Len(p) /\ IsWordChar(tpl[Len(p) + 1]))
    IN  IF tpl = << >> THEN << >>
        ELSE IF exact(PctTitle)
             THEN title \o ExactRender(Drop(tpl, Len(PctTitle)), title, url)
        ELSE IF exact(PctUrl)
             THEN url \o ExactRender(Drop(tpl, Len(PctUrl)), title, url)
        ELSE << Head(tpl) >> \o ExactRender(Tail(tpl), title, url)

\* C9: only exact %title and %url tokens are substituted; a token that only
\* begins with a placeholder name (%titles, %urls) is left as it is.
C9_OnlyExactTokens ==
    Returned => res.val = ExactRender(arg.template, arg.title, arg.url)

\* C10: the title returned is never blank or padded: it is absent when the
\* joined text is empty, in particular when every text node of the first
\* title element is empty or whitespace-only, and otherwise it has no leading
\* or trailing separator.
C10_TitleNeverBlankOrPadded ==
    (Returned /\ arg # << >>) =>
        /\ res.val.tag = "Some" =>
              /\ res.val.val # << >>
              /\ ~IsWhitespace(res.val.val[1])
              /\ ~IsWhitespace(res.val.val[Len(res.val.val)])
        /\ (\A k \in DOMAIN arg[1] : Blank(arg[1][k])) => res.val = None


\* C11: only the first title element counts: no title element gives absence,
\* the result is that of the fragment cut down to its first title element,
\* and a first title element whose text is blank gives absence whatever the
\* later title elements hold.
C11_FirstTitleOnly ==
    Returned =>
        /\ arg = << >> => res.val = None
        /\ arg # << >> =>
              /\ res.val = parse_html_and_get_title(<< arg[1] >>)
              /\ (\A k \in DOMAIN arg[1] : Blank(arg[1][k])) => res.val = None

-----------------------------------------------------------------------------
(* Properties of the window, checked under Spec *)

Unpulled == { i \in Positions : status[i] = "unpulled" }

Started == { i \in Positions : fetches[i] >= 1 }

\* C12, as claimed: a completed fetch is replaced at once, so main never
\* sleeps with an entry not yet started and fewer than 10 fetches in flight.
C12_RefillOnCompletion ==
    (pc = "pending" /\ Unpulled # {}) => Cardinality(InFlight) = Limit

\* C12, amended: a slot is freed by the delivery of the next outgoing result,
\* not by the completion of a fetch.  Once the fill loop has run, and while
\* main polls or sleeps, the window holds 10 entries (in flight, or completed
\* and waiting for their turn) as long as an entry is not yet started; the
\* next entry is taken only after a delivery.
C12_RefillOnDelivery ==
    /\ (pc \in {"poll", "pending"} /\ Unpulled # {}) => Cardinality(Buffer) = Limit
    /\ pulled <= Len(consumed) + Limit

\* C12 witness: main sleeps on the next outgoing fetch while a later fetch has
\* completed, an entry is not yet started, and fewer than 10 are in flight.
C12_Witness ==
    /\ pc = "pending"
    /\ Unpulled # {}
    /\ NextOutgoing \in InFlight
    /\ \E j \in Positions : j > NextOutgoing /\ status[j] = "done"
    /\ Cardinality(InFlight) < Limit

-----------------------------------------------------------------------------
(* Termination, checked under FairSpec *)

Terminated == pc \in {"done", "failed"}

\* C13: if every started fetch eventually completes, the run terminates: main
\* returns after the last result was consumed, or at the first failing
\* position.  (A run stuck with entries not yet started and nothing in flight
\* would stay unterminated for ever, and violate this.)
C13_Terminates ==
    /\ <>Terminated
    /\ [](pc = "done" => Len(consumed) = Len(urls))

\* C13 witness: a run over more entries than the window holds has returned
\* after consuming every result.
C13_Witness ==
    /\ pc = "done"
    /\ Len(urls) > Limit
    /\ Len(consumed) = Len(urls)

-----------------------------------------------------------------------------
(* Abort, checked under Spec *)

\* The loop body has been handed the error result of a failing position.
ErrorReceived == \E k \in DOMAIN consumed : Fails(consumed[k])

\* C14: once the consumer has received the error of the first failing
\* position, no request is sent any more, no further result is consumed, and
\* no notice and no line is written.
C14_AbortStopsPipeline ==
    [][ErrorReceived =>
          /\ fetches' = fetches
          /\ pulled' = pulled
          /\ consumed' = consumed
          /\ stdout' = stdout
          /\ stderr' = stderr]_vars

\* C14 witness: main has returned the error of the first position of a long
\* input while an entry was not yet started, a later fetch was in flight (and
\* is dropped) and a later result had completed and is never consumed.
C14_Witness ==
    /\ pc = "failed"
    /\ source.readable
    /\ consumed = << FirstFailing >>
    /\ Unpulled # {}
    /\ \E j \in Positions : status[j] = "dropped" /\ fetches[j] = 1
    /\ \E j \in Positions : status[j] = "done" /\ j > FirstFailing

-----------------------------------------------------------------------------
(* Properties of load_html, checked under SpecFetch *)

\* C15: every failure of load_html, while the request is sent or while the
\* body is read, wraps its cause and carries the URL.
C15_FailureNamesUrl ==
    (Returned /\ res.val.tag = "Err") =>
        /\ res.val.err.cause \in {"send", "body"}
        /\ res.val.err.context.tag = "Some"
        /\ Contains(res.val.err.context.val, arg)

-----------------------------------------------------------------------------
(* The window, checked under Spec *)

Delivered == { consumed[k] : k \in DOMAIN consumed }

\* C16: the entries started and not yet delivered are at most 10, completed
\* results included; position p is started only when every position up to
\* p - 10 has been delivered; and when main returns the error of position f,
\* no position from f + 10 on has been started.
C16_WindowOfTen ==
    /\ Cardinality(Started) - Cardinality(Delivered) <= 10
    /\ Cardinality(Started \ Delivered) <= 10
    /\ \A p \in Started : \A q \in 1..(p - 10) : q \in Delivered
    /\ (pc = "failed" /\ source.readable) =>
          \A p \in Positions : p >= FirstFailing + 10 => fetches[p] = 0

\* C16 witness: ten entries are started and none delivered, fewer than ten
\* are still in flight, and the eleventh entry is not started.
C16_Witness ==
    /\ Cardinality(Started \ Delivered) = 10
    /\ Cardinality(InFlight) < 10
    /\ consumed = << >>
    /\ Len(urls) > 10
    /\ fetches[11] = 0

-----------------------------------------------------------------------------
(* Determinism, checked under Spec *)

RECURSIVE Expected(_, _, _)
\* What a run over these entries writes and returns, read off the entries'
\* resolution outcomes in input order, without any schedule: [out, err, exit].
Expected(entries, tpl, skipFlag) ==
    IF entries = << >> THEN [out |-> << >>, err |-> << >>, exit |-> 0]
    ELSE LET url  == Head(entries)
             o    == load_url_and_get_title(url)
             rest == Expected(Tail(entries), tpl, skipFlag)
         IN  IF o.tag = "Err" THEN [out |-> << >>, err |-> << >>, exit |-> 1]
             ELSE IF o.val.tag = "Some"
                  THEN [rest EXCEPT !.out = << process_template(tpl, o.val.val, url) >> \o @]
             ELSE IF skipFlag
                  THEN [rest EXCEPT !.err = << NoTitleNotice(url) >> \o @]
             ELSE [rest EXCEPT !.out = << process_template(tpl, NoTitle, url) >> \o @,
                               !.err = << NoTitleNotice(url) >> \o @]

TextsOf(stream) == [k \in DOMAIN stream |-> stream[k].text]

IsPrefix(s, t) == Len(s) <= Len(t) /\ s = SubSeq(t, 1, Len(s))

\* C17: the lines on standard output, the missing-title notices and the exit
\* status of a run are a function of the entries, their resolution outcomes,
\* the template and the skip flag: no schedule of completions changes them.
\* While the run goes on, what is written is a prefix of that.
C17_OutputIsFunctionOfInput ==
    source.readable =>
        LET e == Expected(non_empty_lines(source.text), template, skip)
        IN  /\ IsPrefix(TextsOf(stdout), e.out)
            /\ IsPrefix(TextsOf(stderr), e.err)
            /\ Terminated =>
                  /\ TextsOf(stdout) = e.out
                  /\ TextsOf(stderr) = e.err
                  /\ exit = e.exit

\* C17 witness: a run has ended by the failure of its third entry, after a
\* line and a notice, while the fetch of a later entry had completed.
C17_Witness ==
    /\ pc = "failed"
    /\ Len(consumed) = 3
    /\ Len(stdout) = 1
    /\ Len(stderr) = 1
    /\ skip

-----------------------------------------------------------------------------
(* Single-pass substitution, checked under SpecTemplate *)

\* The text p stands in the template at position k.
TokenAt(tpl, k, p) ==
    /\ k + Len(p) - 1 <= Len(tpl)
    /\ SubSeq(tpl, k, k + Len(p) - 1) = p

\* Position k of the template lies inside a %title or %url that began before.
InsideToken(tpl, k) ==
    \E j \in 1..(k - 1) :
        \/ TokenAt(tpl, j, PctTitle) /\ k < j + Len(PctTitle)
        \/ TokenAt(tpl, j, PctUrl) /\ k < j + Len(PctUrl)

\* What position k of the template alone contributes to the rendered line,
\* the substituted values being copied and never looked into.
PieceAt(tpl, k, title, url) ==
    IF TokenAt(tpl, k, PctTitle) THEN title
    ELSE IF TokenAt(tpl, k, PctUrl) THEN url
    ELSE IF InsideToken(tpl, k) THEN << >>
    ELSE << tpl[k] >>

ScanOfTemplate(tpl, title, url) ==
    Concat([k \in 1..Len(tpl) |-> PieceAt(tpl, k, title, url)])

\* The rendered line is made of the template's positions alone: a %url inside
\* the title, or a %title inside the url, is copied as it is.
SubstitutedOnce ==
    Returned => res.val = ScanOfTemplate(arg.template, arg.title, arg.url)

\* A template in which neither %title nor %url occurs at all comes back as
\* it is.
UnchangedWithoutOccurrence ==
    (Returned /\ \A k \in DOMAIN arg.template :
                    /\ ~TokenAt(arg.template, k, PctTitle)
                    /\ ~TokenAt(arg.template, k, PctUrl))
        => res.val = arg.template

\* The template holds a placeholder: an exact %title or %url token, one that
\* is not the beginning of a longer word.
HasPlaceholder(tpl) ==
    \E k \in DOMAIN tpl : \E p \in { PctTitle, PctUrl } :
        /\ TokenAt(tpl, k, p)
        /\ ~(k + Len(p) <= Len(tpl) /\ IsWordChar(tpl[k + Len(p)]))

\* C18: process_template scans the template only, so that placeholder-looking
\* text inside the substituted title or url is copied verbatim and never
\* substituted again, and a template with no placeholders is returned
\* unchanged.
C18_SinglePassSubstitution ==
    /\ SubstitutedOnce
    /\ (Returned /\ ~HasPlaceholder(arg.template)) => res.val = arg.template

=============================================================================
